---- MODULE Spec2Model ----
(***************************************************************************)
(* Fraud-rule dashboard: the remote "rules" table, the stateless accessor  *)
(* SupabaseRulesService, the observable RuleManagementStore and the        *)
(* create/edit form.  Every remote request is two steps (the backend       *)
(* serves it, the response reaches the client), so requests of different   *)
(* calls interleave and responses arrive in any order.                     *)
(***************************************************************************)
EXTENDS Integers, Sequences, FiniteSets, TLC

\* ---------------------------------------------------------------- bounds
MaxRows == 2
MaxCalls == 2
MaxOps == 2

\* ------------------------------------------------------------- constants
AttentionEffectiveness == 70
AttentionFalsePositives == 100
DefaultCatches == 0
DefaultFalsePositives == 0
DefaultEffectiveness == 0

NoUser == "anon"
Users == {"u1"}
\* the principals that can sign in on this client
Principals == {"u1", "u2"}

Slots == 1..MaxCalls
\* the ids callers pass: a seeded row and a row that exists only once created
RuleIds == {1, 2}
\* the id of the row the table starts with
SeedIds == {1}

\* ------------------------------------------------------------------ text
\* Text values are sequences of one-character strings.
ToLowerChar(ch) ==
  CASE ch = "H" -> "h"
    [] ch = "B" -> "b"
    [] OTHER -> ch

ToLowerCase(s) == [i \in 1..Len(s) |-> ToLowerChar(s[i])]

Includes(s, q) ==
  \E i \in 0..(Len(s) - Len(q)) : SubSeq(s, i + 1, i + Len(q)) = q

IsSpace(ch) == ch = " "

RECURSIVE TrimStart(_)
TrimStart(s) ==
  IF s # <<>> /\ IsSpace(Head(s)) THEN TrimStart(Tail(s)) ELSE s

RECURSIVE TrimEnd(_)
TrimEnd(s) ==
  IF s # <<>> /\ IsSpace(s[Len(s)]) THEN TrimEnd(SubSeq(s, 1, Len(s) - 1)) ELSE s

Trim(s) == TrimEnd(TrimStart(s))

\* ilike '%q%' of the backend: case-insensitive substring match
ILike(s, q) == Includes(ToLowerCase(s), ToLowerCase(q))

\* ---------------------------------------------------------------- errors
\* A thrown value: isError says whether it is an instance of Error.
AuthError == [isError |-> TRUE, message |-> "User not authenticated", code |-> ""]
NotFoundError == [isError |-> TRUE, message |-> "Rule not found", code |-> ""]
\* the query builder resolves with the decoded error body, a plain object
NoRowsError == [isError |-> FALSE, message |-> "no rows returned", code |-> "PGRST116"]
BackendError == [isError |-> FALSE, message |-> "request rejected", code |-> "42501"]
NoError == [isError |-> FALSE, message |-> "", code |-> ""]

\* mutant: the fallback text is forgotten
ErrorMessage_NoFallback(e, fallback) == IF e.isError THEN e.message ELSE ""

\* error instanceof Error ? error.message : fallback
ErrorMessage(e, fallback) == IF e.isError THEN e.message ELSE fallback

\* ------------------------------------------------------------ rule rows
NewRow(id, uid, data, now) ==
  [id |-> id, user_id |-> uid,
   name |-> data.name, description |-> data.description,
   category |-> data.category, condition |-> data.condition,
   severity |-> data.severity, status |-> data.status,
   log_only |-> data.log_only,
   catches |-> DefaultCatches,
   false_positives |-> DefaultFalsePositives,
   effectiveness |-> DefaultEffectiveness,
   is_deleted |-> FALSE,
   created_at |-> now, updated_at |-> now]

\* UPDATE ... SET: the columns named by the request, then the
\* update_rules_updated_at trigger
ApplyUpdate(row, upd, now) ==
  [f \in DOMAIN row |->
     IF f = "updated_at" THEN now
     ELSE IF f \in DOMAIN upd THEN upd[f] ELSE row[f]]

\* row level security: the rows a principal may read, and may update
CanSelect(row, uid) == uid # NoUser /\ row.user_id = uid /\ ~row.is_deleted
CanUpdate(row, uid) == uid # NoUser /\ row.user_id = uid

\* ORDER BY created_at DESC of the rows of table t whose index is in S
RECURSIVE OrderNewestFirst(_, _)
OrderNewestFirst(t, S) ==
  IF S = {} THEN <<>>
  ELSE LET m == CHOOSE i \in S : \A j \in S : t[j].created_at <= t[i].created_at
       IN  <<t[m]>> \o OrderNewestFirst(t, S \ {m})

\* ------------------------------------------- accessor queries (read only)
SvcGetRules(t, uid) ==
  OrderNewestFirst(t, {i \in DOMAIN t : CanSelect(t[i], uid) /\ t[i].is_deleted = FALSE})

SvcSearchRules(t, uid, q) ==
  OrderNewestFirst(t, {i \in DOMAIN t :
      /\ CanSelect(t[i], uid)
      /\ t[i].is_deleted = FALSE
      /\ (ILike(t[i].name, q) \/ ILike(t[i].description, q))})

SvcGetRulesByCategory(t, uid, category) ==
  OrderNewestFirst(t, {i \in DOMAIN t :
      CanSelect(t[i], uid) /\ t[i].category = category /\ t[i].is_deleted = FALSE})

\* mutant: the query reads every row of the principal with that status
SvcGetRulesByStatus_Unfiltered(t, uid, status) ==
  OrderNewestFirst(t, {i \in DOMAIN t : t[i].user_id = uid /\ t[i].status = status})

SvcGetRulesByStatus(t, uid, status) ==
  OrderNewestFirst(t, {i \in DOMAIN t :
      CanSelect(t[i], uid) /\ t[i].status = status /\ t[i].is_deleted = FALSE})

\* the rows .eq('id', id).eq('is_deleted', false) selects
SvcGetRuleMatch(t, uid, id) ==
  {i \in DOMAIN t : CanSelect(t[i], uid) /\ t[i].id = id /\ t[i].is_deleted = FALSE}

\* mutant: the update reaches soft-deleted rows too
SvcUpdateMatch_IgnoresDeleted(t, uid, id) ==
  {i \in DOMAIN t : CanUpdate(t[i], uid) /\ t[i].id = id}

\* the rows updateRule's filter selects
SvcUpdateMatch(t, uid, id) ==
  {i \in DOMAIN t :
     CanUpdate(t[i], uid) /\ CanSelect(t[i], uid) /\ t[i].id = id /\ t[i].is_deleted = FALSE}

\* the rows deleteRule's filter selects
SvcDeleteMatch(t, uid, id) ==
  {i \in DOMAIN t : CanUpdate(t[i], uid) /\ CanSelect(t[i], uid) /\ t[i].id = id}

\* mutant: both branches of the conditional write 'inactive'
ToggledStatus_NeverActive(status) == IF status = "active" THEN "inactive" ELSE "inactive"

\* currentRule.status === 'active' ? 'inactive' : 'active'
ToggledStatus(status) == IF status = "active" THEN "inactive" ELSE "active"

\* ----------------------------------------------------------- input sets
TextHi == <<"H", "i">>
TextX == <<"x">>
TextBehavioral == <<"B">>
TextCondition == <<"c">>

CreateData(name, status) ==
  [name |-> name, description |-> TextX, category |-> TextBehavioral,
   condition |-> TextCondition, severity |-> "medium", status |-> status,
   log_only |-> FALSE]

\* what callers pass to addRule
CreateInputs == {CreateData(TextHi, "active")}

\* what callers pass to updateRule (UpdateRuleData: any subset of the columns)
UpdateInputs == {[status |-> "warning"]}

\* what the statistics writers pass to updateRule
StatsInputs == {[effectiveness |-> 69], [false_positives |-> 101]}

Queries == {<<>>, <<"h">>}
SearchInputs == {<<"h">>}
Tabs == {"active", "all", "attention"}
Statuses == {"active", "inactive", "warning"}

\* rows left in the table by earlier sessions
SeedRow(id, status, eff, fp, deleted) ==
  [NewRow(id, "u1", CreateData(TextHi, status), id)
     EXCEPT !.effectiveness = eff, !.false_positives = fp, !.is_deleted = deleted]

SeedTables ==
  {   <<SeedRow(1, "active", 70, 100, FALSE)>>,
   <<SeedRow(1, "warning", 90, 0, FALSE), SeedRow(2, "active", 90, 0, FALSE)>>,
   <<SeedRow(1, "inactive", 90, 0, FALSE)>>,
   <<SeedRow(1, "inactive", 90, 0, TRUE)>>}

\* ----------------------------------------------------------------- state
VARIABLES
  remote,             \* rows of the remote table "rules", in insertion order
  now,                \* the backend's clock
  authUser,           \* the authenticated principal, or NoUser
  rules, activeTab, searchQuery, isCreateModalOpen, isEditModalOpen,
  editingRule, isLoading, error,          \* RuleManagementStore fields
  calls,              \* the asynchronous calls in flight, one per slot
  formData, isSaving, \* CreateRuleModal component state
  last,               \* how the most recently settled call ended
  ser,                \* the run of serialized toggles under way, if any
  deleted,            \* ids whose deleteRule has completed successfully
  ops,                \* number of calls issued so far
  errors,             \* CreateRuleModal: the fields that show a validation error
  pair,               \* the two overlapping calls under observation, if any
  rtPc,               \* RealtimeTest: where setupRealtime stands
  subscriptionRef,    \* RealtimeTest: the channel the ref holds, if any
  channels,           \* the channels registered with the client, and their state
  logged,             \* number of change events the handler has logged
  mounted             \* RealtimeTest is mounted

storeVars == <<rules, activeTab, searchQuery, isCreateModalOpen,
               isEditModalOpen, editingRule, isLoading, error>>
formVars == <<formData, isSaving, errors>>
rtVars == <<rtPc, subscriptionRef, channels, logged, mounted>>
vars == <<remote, now, authUser, rules, activeTab, searchQuery,
          isCreateModalOpen, isEditModalOpen, editingRule, isLoading, error,
          calls, formData, isSaving, last, ser, deleted, ops, errors, pair,
          rtPc, subscriptionRef, channels, logged, mounted>>

NoData == [none |-> TRUE]

IdleCall ==
  [op |-> "idle", req |-> "none", phase |-> "idle", id |-> 0, data |-> NoData,
   q |-> <<>>, as |-> NoUser, ok |-> FALSE, err |-> NoError, res |-> <<>>,
   cur |-> <<>>, form |-> FALSE]

\* a call of store or accessor operation op whose first request is req
NewCall(op, req, id, data, q) ==
  [IdleCall EXCEPT !.op = op, !.req = req, !.phase = "sent", !.id = id,
                   !.data = data, !.q = q, !.as = authUser]

\* the form's initial and reset value
EmptyForm ==
  [name |-> <<>>, category |-> TextBehavioral, status |-> "active",
   condition |-> <<>>, description |-> <<>>, log_only |-> FALSE,
   severity |-> "medium"]

NoSer == [id |-> 0, orig |-> "", n |-> 0]

NoneSettled == [ok |-> FALSE, promise |-> "none"]

\* no pair of overlapping calls is under observation
NoPair ==
  [op |-> "none", remote0 |-> <<>>, rules0 |-> <<>>, now0 |-> 0,
   out |-> <<"none", "none">>, alone |-> FALSE]

Init ==
  /\ remote \in SeedTables
  /\ now = 2
  /\ authUser \in Users \cup {NoUser}
  /\ rules = <<>>
  /\ activeTab = "all"
  /\ searchQuery = <<>>
  /\ isCreateModalOpen = FALSE
  /\ isEditModalOpen = FALSE
  /\ editingRule = <<>>
  /\ isLoading = TRUE       \* the constructor has called loadRules
  /\ error = <<>>
  /\ calls = [c \in Slots |-> IF c = 1 THEN NewCall("loadRules", "getRules", 0, NoData, <<>>)
                                       ELSE IdleCall]
  /\ formData = EmptyForm
  /\ isSaving = FALSE
  /\ last = NoneSettled
  /\ ser = NoSer
  /\ deleted = {}
  /\ ops = 0
  /\ errors = {}
  /\ pair = NoPair
  /\ rtPc = "getSession"   \* the mount effect has called setupRealtime
  /\ subscriptionRef = <<>>
  /\ channels = {}
  /\ logged = 0
  /\ mounted = TRUE

FreeSlot(c) ==
  /\ calls[c].op = "idle"
  /\ \A d \in Slots : d < c => calls[d].op # "idle"
  /\ ops < MaxOps

Sent(c, req) == calls[c].phase = "sent" /\ calls[c].req = req
Back(c, op, req) == calls[c].phase = "back" /\ calls[c].op = op /\ calls[c].req = req

\* the response of the backend to the request of call c
Reply(c, ok, err, res) ==
  calls' = [calls EXCEPT ![c].phase = "back", ![c].ok = ok, ![c].err = err, ![c].res = res]

\* call c is over: its slot is free again
Settle(c, ok, promise) ==
  /\ calls' = [calls EXCEPT ![c] = IdleCall]
  /\ last' = [ok |-> ok, promise |-> promise]

\* ----------------------------------------------------------- the backend
ServeGetRules(c) ==
  /\ Sent(c, "getRules")
  /\ Reply(c, TRUE, NoError, SvcGetRules(remote, calls[c].as))
  /\ UNCHANGED <<remote, now, authUser, storeVars, formVars, last, ser, deleted, pair, rtVars, ops>>

ServeSearchRules(c) ==
  /\ Sent(c, "searchRules")
  /\ Reply(c, TRUE, NoError, SvcSearchRules(remote, calls[c].as, calls[c].q))
  /\ UNCHANGED <<remote, now, authUser, storeVars, formVars, last, ser, deleted, pair, rtVars, ops>>

ServeGetRulesByCategory(c) ==
  /\ Sent(c, "getRulesByCategory")
  /\ Reply(c, TRUE, NoError, SvcGetRulesByCategory(remote, calls[c].as, calls[c].q))
  /\ UNCHANGED <<remote, now, authUser, storeVars, formVars, last, ser, deleted, pair, rtVars, ops>>

ServeGetRulesByStatus(c) ==
  /\ Sent(c, "getRulesByStatus")
  /\ Reply(c, TRUE, NoError, SvcGetRulesByStatus(remote, calls[c].as, calls[c].data.status))
  /\ UNCHANGED <<remote, now, authUser, storeVars, formVars, last, ser, deleted, pair, rtVars, ops>>

\* .single(): exactly one row, else the no-rows error
ServeGetRule(c) ==
  /\ Sent(c, "getRule")
  /\ LET m == SvcGetRuleMatch(remote, calls[c].as, calls[c].id)
     IN  IF m = {}
         THEN Reply(c, FALSE, NoRowsError, <<>>)
         ELSE \E i \in m : Reply(c, TRUE, NoError, <<remote[i]>>)
  /\ UNCHANGED <<remote, now, authUser, storeVars, formVars, last, ser, deleted, pair, rtVars, ops>>

\* mutant: every inserted row gets the owner of the seeded rows
ServeInsert_SeedOwner(c) ==
  /\ Sent(c, "insert")
  /\ Len(remote) < MaxRows
  /\ LET row == NewRow(Len(remote) + 1, "u1", calls[c].data, now)
     IN  /\ remote' = Append(remote, row)
         /\ Reply(c, TRUE, NoError, <<row>>)
  /\ now' = now + 1
  /\ UNCHANGED <<authUser, storeVars, formVars, last, ser, deleted, pair, rtVars, ops>>

ServeInsert(c) ==
  /\ Sent(c, "insert")
  /\ Len(remote) < MaxRows
  /\ calls[c].as = calls[c].data.user_id      \* WITH CHECK (auth.uid() = user_id)
  /\ LET row == NewRow(Len(remote) + 1, calls[c].data.user_id, calls[c].data, now)
     IN  /\ remote' = Append(remote, row)
         /\ Reply(c, TRUE, NoError, <<row>>)
  /\ now' = now + 1
  /\ UNCHANGED <<authUser, storeVars, formVars, last, ser, deleted, pair, rtVars, ops>>

\* mutant: the write of a toggle flips the status the row has when it is
\* written
ServeUpdate_FlipsInPlace(c) ==
  /\ Sent(c, "update")
  /\ LET m == SvcUpdateMatch(remote, calls[c].as, calls[c].id)
     IN  IF m = {}
         THEN /\ Reply(c, FALSE, NoRowsError, <<>>)
              /\ UNCHANGED <<remote, now>>
         ELSE \E i \in m :
                LET upd == IF calls[c].op = "toggleRuleStatus"
                           THEN [status |-> ToggledStatus(remote[i].status)]
                           ELSE calls[c].data
                    row == ApplyUpdate(remote[i], upd, now)
                IN  /\ remote' = [remote EXCEPT ![i] = row]
                    /\ now' = now + 1
                    /\ Reply(c, TRUE, NoError, <<row>>)
  /\ UNCHANGED <<authUser, storeVars, formVars, last, ser, deleted, pair, rtVars, ops>>

ServeUpdate(c) ==
  /\ Sent(c, "update")
  /\ LET m == SvcUpdateMatch(remote, calls[c].as, calls[c].id)
     IN  IF m = {}
         THEN /\ Reply(c, FALSE, NoRowsError, <<>>)
              /\ UNCHANGED <<remote, now>>
         ELSE \E i \in m :
                LET row == ApplyUpdate(remote[i], calls[c].data, now)
                IN  /\ remote' = [remote EXCEPT ![i] = row]
                    /\ now' = now + 1
                    /\ Reply(c, TRUE, NoError, <<row>>)
  /\ UNCHANGED <<authUser, storeVars, formVars, last, ser, deleted, pair, rtVars, ops>>

\* mutant: the request deletes the row
ServeDelete_Physical(c) ==
  /\ Sent(c, "delete")
  /\ LET m == SvcDeleteMatch(remote, calls[c].as, calls[c].id)
     IN  /\ remote' = SelectSeq(remote, LAMBDA r : \A i \in m : remote[i] # r)
         /\ now' = IF m = {} THEN now ELSE now + 1
  /\ Reply(c, TRUE, NoError, <<>>)
  /\ UNCHANGED <<authUser, storeVars, formVars, last, ser, deleted, pair, rtVars, ops>>

ServeDelete(c) ==
  /\ Sent(c, "delete")
  /\ LET m == SvcDeleteMatch(remote, calls[c].as, calls[c].id)
     IN  /\ remote' = [i \in DOMAIN remote |->
                         IF i \in m THEN ApplyUpdate(remote[i], [is_deleted |-> TRUE], now)
                         ELSE remote[i]]
         /\ now' = IF m = {} THEN now ELSE now + 1
  /\ Reply(c, TRUE, NoError, <<>>)
  /\ UNCHANGED <<authUser, storeVars, formVars, last, ser, deleted, pair, rtVars, ops>>

\* transport or policy failure: the request has no effect
Reject(c) ==
  /\ calls[c].phase = "sent"
  /\ calls[c].req # "getUser"
  /\ Reply(c, FALSE, BackendError, <<>>)
  /\ UNCHANGED <<remote, now, authUser, storeVars, formVars, last, ser, deleted, pair, rtVars, ops>>

\* ------------------------------------------------ RuleManagementStore
WriteOps == {"addRule", "updateRule", "deleteRule", "toggleRuleStatus"}
NoWriterInFlight == \A c \in Slots : calls[c].op \notin WriteOps

Issue(c, call) ==
  /\ FreeSlot(c)
  /\ calls' = [calls EXCEPT ![c] = call]
  /\ ops' = ops + 1

\* the observed pair learns how its call c ended
PairAfter(c, ok) ==
  pair' = IF /\ pair.op = calls[c].op
             /\ calls[c].id \in DOMAIN pair.out
             /\ pair.out[calls[c].id] = "pending"
          THEN [pair EXCEPT !.out[calls[c].id] = IF ok THEN "ok" ELSE "failed"]
          ELSE pair

RemoveById(rs, id) == SelectSeq(rs, LAMBDA r : r.id # id)

\* mutant: the returned rule replaces the whole list
ReplaceById_Whole(rs, id, rule) == <<rule>>

\* index = findIndex(r => r.id === id); if (index !== -1) rules[index] = rule
ReplaceById(rs, id, rule) ==
  LET idx == {i \in 1..Len(rs) : rs[i].id = id}
  IN  IF idx = {} THEN rs
      ELSE [rs EXCEPT ![CHOOSE i \in idx : \A j \in idx : i <= j] = rule]

\* mutant: the modal is closed in the finally block
FormAfter_AlwaysClose(c, ok) ==
  IF calls[c].form
  THEN /\ formData' = EmptyForm
       /\ errors' = {}
       /\ isCreateModalOpen' = FALSE
       /\ editingRule' = <<>>
       /\ isSaving' = FALSE
  ELSE UNCHANGED <<formData, isSaving, errors, isCreateModalOpen, editingRule>>

\* the rest of handleSubmit once the awaited store operation has settled
FormAfter(c, ok) ==
  IF calls[c].form
  THEN IF ok
       THEN /\ formData' = EmptyForm
            /\ errors' = {}
            /\ isCreateModalOpen' = FALSE
            /\ editingRule' = <<>>
            /\ isSaving' = FALSE
       ELSE /\ isSaving' = FALSE
            /\ UNCHANGED <<formData, errors, isCreateModalOpen, editingRule>>
  ELSE UNCHANGED <<formData, isSaving, errors, isCreateModalOpen, editingRule>>

LoadRules(c) ==
  /\ Issue(c, NewCall("loadRules", "getRules", 0, NoData, <<>>))
  /\ isLoading' = TRUE
  /\ error' = <<>>
  /\ UNCHANGED <<remote, now, authUser, rules, activeTab, searchQuery,
                 isCreateModalOpen, isEditModalOpen, editingRule, formVars, last, ser, deleted, pair, rtVars>>

\* mutant: isLoading is cleared on the success path only
LoadRulesDone_NoFinally(c) ==
  /\ Back(c, "loadRules", "getRules")
  /\ IF calls[c].ok
     THEN rules' = calls[c].res /\ error' = error
     ELSE rules' = rules /\ error' = <<ErrorMessage(calls[c].err, "Failed to load rules")>>
  /\ isLoading' = IF calls[c].ok THEN FALSE ELSE isLoading
  /\ Settle(c, calls[c].ok, "fulfilled")
  /\ UNCHANGED <<remote, now, authUser, activeTab, searchQuery, isCreateModalOpen,
                 isEditModalOpen, editingRule, formVars, ser, deleted, pair, rtVars, ops>>

LoadRulesDone(c) ==
  /\ Back(c, "loadRules", "getRules")
  /\ IF calls[c].ok
     THEN rules' = calls[c].res /\ error' = error
     ELSE rules' = rules /\ error' = <<ErrorMessage(calls[c].err, "Failed to load rules")>>
  /\ isLoading' = FALSE
  /\ Settle(c, calls[c].ok, "fulfilled")
  /\ UNCHANGED <<remote, now, authUser, activeTab, searchQuery, isCreateModalOpen,
                 isEditModalOpen, editingRule, formVars, ser, deleted, pair, rtVars, ops>>

SearchRules(c, query) ==
  /\ Issue(c, NewCall("searchRules", "searchRules", 0, NoData, query))
  /\ isLoading' = TRUE
  /\ UNCHANGED <<remote, now, authUser, rules, activeTab, searchQuery,
                 isCreateModalOpen, isEditModalOpen, editingRule, error, formVars, last, ser, deleted, pair, rtVars>>

SearchRulesDone(c) ==
  /\ Back(c, "searchRules", "searchRules")
  /\ IF calls[c].ok
     THEN rules' = calls[c].res /\ error' = error
     ELSE rules' = rules /\ error' = <<ErrorMessage(calls[c].err, "Failed to search rules")>>
  /\ isLoading' = FALSE
  /\ Settle(c, calls[c].ok, "fulfilled")
  /\ UNCHANGED <<remote, now, authUser, activeTab, searchQuery, isCreateModalOpen,
                 isEditModalOpen, editingRule, formVars, ser, deleted, pair, rtVars, ops>>

\* mutant: the rule leaves the cache before the request is answered
DeleteRule_Optimistic(c, id) ==
  /\ Issue(c, NewCall("deleteRule", "delete", id, NoData, <<>>))
  /\ ser' = NoSer
  /\ rules' = RemoveById(rules, id)
  /\ UNCHANGED <<remote, now, authUser, activeTab, searchQuery, isCreateModalOpen,
                 isEditModalOpen, editingRule, isLoading, error, formVars, last>>
  /\ UNCHANGED <<deleted, pair, rtVars>>

DeleteRule(c, id) ==
  /\ Issue(c, NewCall("deleteRule", "delete", id, NoData, <<>>))
  /\ ser' = NoSer
  /\ UNCHANGED <<remote, now, authUser, storeVars, formVars, last>>
  /\ UNCHANGED <<deleted, pair, rtVars>>

DeleteRuleDone(c) ==
  /\ Back(c, "deleteRule", "delete")
  /\ IF calls[c].ok
     THEN /\ rules' = RemoveById(rules, calls[c].id)
          /\ error' = error
          /\ deleted' = deleted \cup {calls[c].id}
     ELSE /\ rules' = rules
          /\ error' = <<ErrorMessage(calls[c].err, "Failed to delete rule")>>
          /\ deleted' = deleted
  /\ Settle(c, calls[c].ok, "fulfilled")
  /\ PairAfter(c, calls[c].ok)
  /\ UNCHANGED <<remote, now, authUser, activeTab, searchQuery, isCreateModalOpen,
                 isEditModalOpen, editingRule, isLoading, formVars, ser, ops, rtVars>>


ToggleRuleStatus(c, id) ==
  /\ Issue(c, NewCall("toggleRuleStatus", "getRule", id, NoData, <<>>))
  /\ ser' = IF NoWriterInFlight /\ ser.id = id /\ ser.n = 1 THEN ser
            ELSE IF NoWriterInFlight /\ id \in DOMAIN remote
                 THEN [id |-> id, orig |-> remote[id].status, n |-> 0]
                 ELSE NoSer
  /\ UNCHANGED <<remote, now, authUser, storeVars, formVars, last>>
  /\ UNCHANGED <<deleted, pair, rtVars>>

\* mutant: a rule read as warning is written back as warning
ToggleGotRule_KeepsWarning(c) ==
  /\ Back(c, "toggleRuleStatus", "getRule")
  /\ IF calls[c].ok
     THEN /\ calls' = [calls EXCEPT ![c].req = "update", ![c].phase = "sent",
                                    ![c].as = authUser, ![c].res = <<>>,
                                    ![c].cur = calls[c].res,
                                    ![c].data = [status |-> IF calls[c].res[1].status = "warning"
                                                             THEN "warning"
                                                             ELSE ToggledStatus(calls[c].res[1].status)]]
          /\ UNCHANGED <<error, last, ser, pair>>
     ELSE /\ error' = <<ErrorMessage(IF calls[c].err.code = "PGRST116"
                                       THEN NotFoundError ELSE calls[c].err,
                                     "Failed to toggle rule status")>>
          /\ Settle(c, FALSE, "fulfilled")
          /\ ser' = NoSer
          /\ PairAfter(c, FALSE)
  /\ UNCHANGED <<remote, now, authUser, rules, activeTab, searchQuery, isCreateModalOpen,
                 isEditModalOpen, editingRule, isLoading, formVars, ops>>
  /\ UNCHANGED <<deleted, rtVars>>

\* SupabaseRulesService.toggleRuleStatus once getRule has answered
ToggleGotRule(c) ==
  /\ Back(c, "toggleRuleStatus", "getRule")
  /\ IF calls[c].ok
     THEN /\ calls' = [calls EXCEPT ![c].req = "update", ![c].phase = "sent",
                                    ![c].as = authUser, ![c].res = <<>>,
                                    ![c].cur = calls[c].res,
                                    ![c].data = [status |-> ToggledStatus(calls[c].res[1].status)]]
          /\ UNCHANGED <<error, last, ser, pair>>
     ELSE /\ error' = <<ErrorMessage(IF calls[c].err.code = "PGRST116"
                                       THEN NotFoundError ELSE calls[c].err,
                                     "Failed to toggle rule status")>>
          /\ Settle(c, FALSE, "fulfilled")
          /\ ser' = NoSer
          /\ PairAfter(c, FALSE)
  /\ UNCHANGED <<remote, now, authUser, rules, activeTab, searchQuery, isCreateModalOpen,
                 isEditModalOpen, editingRule, isLoading, formVars, ops>>
  /\ UNCHANGED <<deleted, rtVars>>

ToggleRuleStatusDone(c) ==
  /\ Back(c, "toggleRuleStatus", "update")
  /\ IF calls[c].ok
     THEN /\ rules' = ReplaceById(rules, calls[c].id, calls[c].res[1])
          /\ error' = error
          /\ ser' = IF ser.id = calls[c].id THEN [ser EXCEPT !.n = ser.n + 1] ELSE NoSer
     ELSE /\ rules' = rules
          /\ error' = <<ErrorMessage(calls[c].err, "Failed to toggle rule status")>>
          /\ ser' = NoSer
  /\ Settle(c, calls[c].ok, "fulfilled")
  /\ PairAfter(c, calls[c].ok)
  /\ UNCHANGED <<remote, now, authUser, activeTab, searchQuery, isCreateModalOpen,
                 isEditModalOpen, editingRule, isLoading, formVars, ops>>
  /\ UNCHANGED <<deleted, rtVars>>

AddRule(c, ruleData) ==
  /\ Issue(c, NewCall("addRule", "getUser", 0, ruleData, <<>>))
  /\ ser' = NoSer
  /\ UNCHANGED <<remote, now, authUser, storeVars, formVars, last>>
  /\ UNCHANGED <<deleted, pair, rtVars>>

\* mutant: createRule does not test the user before inserting
AddRuleGotUser_NoCheck(c) ==
  /\ Sent(c, "getUser")
  /\ calls' = [calls EXCEPT ![c].req = "insert", ![c].as = authUser,
                 ![c].data = [f \in DOMAIN calls[c].data \cup {"user_id"} |->
                                 IF f = "user_id" THEN authUser ELSE calls[c].data[f]]]
  /\ UNCHANGED <<error, last, formVars, isCreateModalOpen, editingRule>>
  /\ UNCHANGED <<remote, now, authUser, rules, activeTab, searchQuery,
                 isEditModalOpen, isLoading, ser, deleted, pair, rtVars, ops>>

\* SupabaseRulesService.createRule once auth.getUser has answered
AddRuleGotUser(c) ==
  /\ Sent(c, "getUser")
  /\ IF authUser = NoUser
     THEN /\ error' = <<ErrorMessage(AuthError, "Failed to create rule")>>
          /\ Settle(c, FALSE, "rejected")
          /\ FormAfter(c, FALSE)
     ELSE /\ calls' = [calls EXCEPT ![c].req = "insert", ![c].as = authUser,
                         ![c].data = [f \in DOMAIN calls[c].data \cup {"user_id"} |->
                                         IF f = "user_id" THEN authUser ELSE calls[c].data[f]]]
          /\ UNCHANGED <<error, last, formVars, isCreateModalOpen, editingRule>>
  /\ UNCHANGED <<remote, now, authUser, rules, activeTab, searchQuery,
                 isEditModalOpen, isLoading, ser, deleted, pair, rtVars, ops>>

\* mutant: the new rule is pushed at the end of the list
AddRuleDone_Push(c) ==
  /\ Back(c, "addRule", "insert")
  /\ IF calls[c].ok
     THEN /\ rules' = Append(rules, calls[c].res[1])
          /\ error' = error
          /\ Settle(c, TRUE, "fulfilled")
     ELSE /\ rules' = rules
          /\ error' = <<ErrorMessage(calls[c].err, "Failed to create rule")>>
          /\ Settle(c, FALSE, "rejected")
  /\ FormAfter(c, calls[c].ok)
  /\ UNCHANGED <<remote, now, authUser, activeTab, searchQuery,
                 isEditModalOpen, isLoading, ser, deleted, pair, rtVars, ops>>

AddRuleDone(c) ==
  /\ Back(c, "addRule", "insert")
  /\ IF calls[c].ok
     THEN /\ rules' = <<calls[c].res[1]>> \o rules
          /\ error' = error
          /\ Settle(c, TRUE, "fulfilled")
     ELSE /\ rules' = rules
          /\ error' = <<ErrorMessage(calls[c].err, "Failed to create rule")>>
          /\ Settle(c, FALSE, "rejected")
  /\ FormAfter(c, calls[c].ok)
  /\ UNCHANGED <<remote, now, authUser, activeTab, searchQuery,
                 isEditModalOpen, isLoading, ser, deleted, pair, rtVars, ops>>

UpdateRule(c, id, updates) ==
  /\ Issue(c, NewCall("updateRule", "update", id, updates, <<>>))
  /\ ser' = NoSer
  /\ UNCHANGED <<remote, now, authUser, storeVars, formVars, last>>
  /\ UNCHANGED <<deleted, pair, rtVars>>

UpdateRuleDone(c) ==
  /\ Back(c, "updateRule", "update")
  /\ IF calls[c].ok
     THEN /\ rules' = ReplaceById(rules, calls[c].id, calls[c].res[1])
          /\ error' = error
          /\ Settle(c, TRUE, "fulfilled")
     ELSE /\ rules' = rules
          /\ error' = <<ErrorMessage(calls[c].err, "Failed to update rule")>>
          /\ Settle(c, FALSE, "rejected")
  /\ FormAfter(c, calls[c].ok)
  /\ PairAfter(c, calls[c].ok)
  /\ UNCHANGED <<remote, now, authUser, activeTab, searchQuery,
                 isEditModalOpen, isLoading, ser, deleted, rtVars, ops>>

\* the call of mutating operation op on rule id
PairCall(op, id, updates) ==
  CASE op = "deleteRule" -> NewCall("deleteRule", "delete", id, NoData, <<>>)
    [] op = "toggleRuleStatus" -> NewCall("toggleRuleStatus", "getRule", id, NoData, <<>>)
    [] op = "updateRule" -> NewCall("updateRule", "update", id, updates, <<>>)

\* the same mutating operation is called for rule 1 and for rule 2 before
\* either call has been answered
StartPair(c, d, op, updates) ==
  /\ c < d
  /\ calls[c].op = "idle"
  /\ calls[d].op = "idle"
  /\ \A e \in Slots : (e < d /\ e # c) => calls[e].op # "idle"
  /\ ops + 2 <= MaxOps
  /\ calls' = [calls EXCEPT ![c] = PairCall(op, 1, updates),
                            ![d] = PairCall(op, 2, updates)]
  /\ ops' = ops + 2
  /\ pair' = [op |-> op, remote0 |-> remote, rules0 |-> rules, now0 |-> now,
              out |-> <<"pending", "pending">>,
              alone |-> \A e \in Slots : calls[e].op = "idle"]
  /\ ser' = NoSer
  /\ UNCHANGED <<remote, now, authUser, storeVars, formVars, last, deleted, rtVars>>

\* ------------------------------------------------- store: derived views
\* mutant: the effectiveness threshold is inclusive
NeedsAttention_Inclusive(rule) ==
  \/ rule.status = "warning"
  \/ rule.effectiveness <= AttentionEffectiveness
  \/ rule.false_positives > AttentionFalsePositives

NeedsAttention(rule) ==
  \/ rule.status = "warning"
  \/ rule.effectiveness < AttentionEffectiveness
  \/ rule.false_positives > AttentionFalsePositives

MatchesQuery(rule, query) ==
  \/ Includes(ToLowerCase(rule.name), query)
  \/ Includes(ToLowerCase(rule.description), query)
  \/ Includes(ToLowerCase(rule.category), query)

\* mutant: every tab but 'active' is filtered as 'attention'
filteredRules_ElseAttention ==
  LET tabbed == IF activeTab = "active"
                THEN SelectSeq(rules, LAMBDA r : r.status = "active")
                ELSE SelectSeq(rules, NeedsAttention)
  IN  IF searchQuery # <<>>
      THEN SelectSeq(tabbed, LAMBDA r : MatchesQuery(r, ToLowerCase(searchQuery)))
      ELSE tabbed

filteredRules ==
  LET tabbed == IF activeTab = "active"
                THEN SelectSeq(rules, LAMBDA r : r.status = "active")
                ELSE IF activeTab = "attention"
                     THEN SelectSeq(rules, NeedsAttention)
                     ELSE rules
  IN  IF searchQuery # <<>>
      THEN SelectSeq(tabbed, LAMBDA r : MatchesQuery(r, ToLowerCase(searchQuery)))
      ELSE tabbed

activeRulesCount == Len(SelectSeq(rules, LAMBDA r : r.status = "active"))

needsAttentionCount == Len(SelectSeq(rules, NeedsAttention))

\* --------------------------------------------- store: local state setters
\* the modal's pre-fill effect, which runs when editingRule or
\* isCreateModalOpen has changed
FormOf(rule) ==
  [name |-> rule.name, category |-> rule.category, status |-> rule.status,
   condition |-> rule.condition, description |-> rule.description,
   log_only |-> rule.log_only, severity |-> rule.severity]

PrefillEffect(editing, open) ==
  IF <<editing, open>> = <<editingRule, isCreateModalOpen>> THEN formData
  ELSE IF editing # <<>> THEN FormOf(editing[1]) ELSE EmptyForm

\* setErrors({}) of the same effect
PrefillErrors(editing, open) ==
  IF <<editing, open>> = <<editingRule, isCreateModalOpen>> THEN errors ELSE {}

SetActiveTab(tab) ==
  /\ activeTab' = tab
  /\ tab # activeTab
  /\ UNCHANGED <<remote, now, authUser, rules, searchQuery, isCreateModalOpen,
                 isEditModalOpen, editingRule, isLoading, error, calls, formVars,
                 last, ser, deleted, pair, rtVars, ops>>

SetSearchQuery(query) ==
  /\ searchQuery' = query
  /\ query # searchQuery
  /\ UNCHANGED <<remote, now, authUser, rules, activeTab, isCreateModalOpen,
                 isEditModalOpen, editingRule, isLoading, error, calls, formVars,
                 last, ser, deleted, pair, rtVars, ops>>

OpenCreateModal ==
  /\ isCreateModalOpen' = TRUE
  /\ editingRule' = <<>>
  /\ formData' = PrefillEffect(<<>>, TRUE)
  /\ errors' = PrefillErrors(<<>>, TRUE)
  /\ UNCHANGED <<remote, now, authUser, rules, activeTab, searchQuery,
                 isEditModalOpen, isLoading, error, calls, isSaving, last, ser, deleted, pair, rtVars, ops>>

\* closeCreateModal, reached through the modal's handleClose
CloseCreateModal ==
  /\ isCreateModalOpen
  /\ isCreateModalOpen' = FALSE
  /\ editingRule' = <<>>
  /\ formData' = EmptyForm
  /\ errors' = {}
  /\ UNCHANGED <<remote, now, authUser, rules, activeTab, searchQuery,
                 isEditModalOpen, isLoading, error, calls, isSaving, last, ser, deleted, pair, rtVars, ops>>

EditRule(id) ==
  /\ \E i \in 1..Len(rules) :
       /\ rules[i].id = id
       /\ \A j \in 1..(i - 1) : rules[j].id # id
       /\ editingRule' = <<rules[i]>>
       /\ formData' = PrefillEffect(<<rules[i]>>, TRUE)
       /\ errors' = PrefillErrors(<<rules[i]>>, TRUE)
  /\ isEditModalOpen' = TRUE
  /\ isCreateModalOpen' = TRUE
  /\ UNCHANGED <<remote, now, authUser, rules, activeTab, searchQuery,
                 isLoading, error, calls, isSaving, last, ser, deleted, pair, rtVars, ops>>

CloseEditModal ==
  /\ isEditModalOpen
  /\ isEditModalOpen' = FALSE
  /\ editingRule' = <<>>
  /\ isCreateModalOpen' = FALSE
  /\ formData' = PrefillEffect(<<>>, FALSE)
  /\ errors' = PrefillErrors(<<>>, FALSE)
  /\ UNCHANGED <<remote, now, authUser, rules, activeTab, searchQuery,
                 isLoading, error, calls, isSaving, last, ser, deleted, pair, rtVars, ops>>

ClearError ==
  /\ error # <<>>
  /\ error' = <<>>
  /\ UNCHANGED <<remote, now, authUser, rules, activeTab, searchQuery, isCreateModalOpen,
                 isEditModalOpen, editingRule, isLoading, calls, formVars, last, ser, deleted, pair, rtVars, ops>>

\* ------------------------------------------------------- CreateRuleModal
FormTexts == {<<" ">>, TextX}

\* mutant: the fields are tested without trim()
ValidateForm_NoTrim(fd) ==
  /\ fd.name # <<>>
  /\ fd.category # <<>>
  /\ fd.condition # <<>>
  /\ fd.description # <<>>

ValidateForm(fd) ==
  /\ Trim(fd.name) # <<>>
  /\ fd.category # <<>>
  /\ Trim(fd.condition) # <<>>
  /\ Trim(fd.description) # <<>>

\* the keys of newErrors
InvalidFields(fd) ==
  {f \in {"name", "condition", "description"} : Trim(fd[f]) = <<>>}
    \cup {f \in {"category"} : fd[f] = <<>>}

HandleInputChange(field, value) ==
  /\ isCreateModalOpen
  /\ formData[field] # value
  /\ formData' = [formData EXCEPT ![field] = value]
  /\ errors' = errors \ {field}
  /\ UNCHANGED <<remote, now, authUser, storeVars, calls, isSaving, last, ser, deleted, pair, rtVars, ops>>

HandleSubmit(c) ==
  /\ isCreateModalOpen
  /\ ~isSaving
  /\ ValidateForm(formData)
  /\ errors' = {}
  /\ isSaving' = TRUE
  /\ Issue(c, [(IF editingRule # <<>>
                THEN NewCall("updateRule", "update", editingRule[1].id, formData, <<>>)
                ELSE NewCall("addRule", "getUser", 0, formData, <<>>))
               EXCEPT !.form = TRUE])
  /\ ser' = NoSer
  /\ UNCHANGED <<remote, now, authUser, storeVars, formData, last>>
  /\ UNCHANGED <<deleted, pair, rtVars>>


\* handleSubmit when validateForm answers false: the errors are shown and
\* the handler returns
HandleSubmitInvalid ==
  /\ isCreateModalOpen
  /\ ~isSaving
  /\ ~ValidateForm(formData)
  /\ errors' = InvalidFields(formData)
  /\ UNCHANGED <<remote, now, authUser, storeVars, calls, formData, isSaving, last,
                 ser, deleted, pair, rtVars, ops>>

\* ----------------------------------------------------------- the session
SignIn(u) ==
  /\ authUser = NoUser
  /\ ops < MaxOps
  /\ authUser' = u
  /\ ops' = ops + 1
  /\ UNCHANGED <<remote, now, storeVars, calls, formVars, last, ser, deleted, pair, rtVars>>

SignOut ==
  /\ authUser # NoUser
  /\ ops < MaxOps
  /\ authUser' = NoUser
  /\ ops' = ops + 1
  /\ UNCHANGED <<remote, now, storeVars, calls, formVars, last, ser, deleted, pair, rtVars>>

\* ---------------------------------------------------------- RealtimeTest
RulesChannel == "rules_updates_channel"

\* supabase.removeChannel: the channel is unsubscribed and forgotten
RemoveChannel(chs, ref) == {ch \in chs : <<ch.id>> # ref}

\* setupRealtime once auth.getSession has answered, up to the second await
SetupGotSession ==
  /\ rtPc = "getSession"
  /\ IF authUser = NoUser
     THEN /\ rtPc' = "done"
          /\ UNCHANGED <<subscriptionRef, channels>>
     ELSE LET id == Cardinality(channels) + 1
          IN  /\ channels' = RemoveChannel(channels, subscriptionRef)
                               \cup {[id |-> id, name |-> RulesChannel, state |-> "joining"]}
              /\ subscriptionRef' = <<id>>
              /\ rtPc' = "subscribe"
  /\ UNCHANGED <<remote, now, authUser, storeVars, calls, formVars, last, ser,
                 deleted, pair, ops, logged, mounted>>

\* setupRealtime after await channel.subscribe(): it logs the status
SetupSubscribed ==
  /\ rtPc = "subscribe"
  /\ rtPc' = "done"
  /\ UNCHANGED <<remote, now, authUser, storeVars, calls, formVars, last, ser,
                 deleted, pair, ops, subscriptionRef, channels, logged, mounted>>

\* the server acknowledges the subscription of a registered channel
ChannelJoined ==
  /\ \E ch \in channels :
       /\ ch.state = "joining"
       /\ channels' = (channels \ {ch}) \cup {[ch EXCEPT !.state = "joined"]}
  /\ UNCHANGED <<remote, now, authUser, storeVars, calls, formVars, last, ser,
                 deleted, pair, ops, rtPc, subscriptionRef, logged, mounted>>

\* mutant: the handler merges the changed row into the store
RealtimeEvent_Merges(i) ==
  /\ \E ch \in channels : ch.state = "joined"
  /\ CanSelect(remote[i], authUser)
  /\ logged < MaxOps
  /\ logged' = logged + 1
  /\ rules' = ReplaceById(rules, remote[i].id, remote[i])
  /\ UNCHANGED <<remote, now, authUser, activeTab, searchQuery, isCreateModalOpen,
                 isEditModalOpen, editingRule, isLoading, error, calls, formVars,
                 last, ser, deleted, pair, ops, rtPc, subscriptionRef, channels, mounted>>

\* a change of remote row i is notified on the joined channel: the handler
\* logs the payload
RealtimeEvent(i) ==
  /\ \E ch \in channels : ch.state = "joined"
  /\ CanSelect(remote[i], authUser)
  /\ logged < MaxOps
  /\ logged' = logged + 1
  /\ UNCHANGED <<remote, now, authUser, storeVars, calls, formVars, last, ser,
                 deleted, pair, ops, rtPc, subscriptionRef, channels, mounted>>

\* the effect's cleanup, at unmount
Cleanup ==
  /\ mounted
  /\ mounted' = FALSE
  /\ channels' = RemoveChannel(channels, subscriptionRef)
  /\ subscriptionRef' = <<>>
  /\ UNCHANGED <<remote, now, authUser, storeVars, calls, formVars, last, ser,
                 deleted, pair, ops, rtPc, logged>>

\* ------------------------------------- accessor calls made past the store
GetRule(c, id) ==
  /\ Issue(c, NewCall("getRule", "getRule", id, NoData, <<>>))
  /\ UNCHANGED <<remote, now, authUser, storeVars, formVars, last, ser, deleted, pair, rtVars>>

GetRulesByCategory(c, category) ==
  /\ Issue(c, NewCall("getRulesByCategory", "getRulesByCategory", 0, NoData, category))
  /\ UNCHANGED <<remote, now, authUser, storeVars, formVars, last, ser, deleted, pair, rtVars>>

GetRulesByStatus(c, status) ==
  /\ Issue(c, NewCall("getRulesByStatus", "getRulesByStatus", 0, [status |-> status], <<>>))
  /\ UNCHANGED <<remote, now, authUser, storeVars, formVars, last, ser, deleted, pair, rtVars>>

AccessorOps == {"getRule", "getRulesByCategory", "getRulesByStatus"}

\* mutant: getRule rethrows every error
AccessorDone_Raises(c) ==
  /\ calls[c].phase = "back"
  /\ calls[c].op \in AccessorOps
  /\ Settle(c, calls[c].ok, IF calls[c].ok THEN "fulfilled" ELSE "rejected")
  /\ UNCHANGED <<remote, now, authUser, storeVars, formVars, ser, deleted, pair, rtVars, ops>>

\* the accessor's promise settles: getRule turns the no-rows error into null
AccessorDone(c) ==
  /\ calls[c].phase = "back"
  /\ calls[c].op \in AccessorOps
  /\ LET ok == calls[c].ok \/ (calls[c].op = "getRule" /\ calls[c].err.code = "PGRST116")
     IN  Settle(c, ok, IF ok THEN "fulfilled" ELSE "rejected")
  /\ UNCHANGED <<remote, now, authUser, storeVars, formVars, ser, deleted, pair, rtVars, ops>>

\* ------------------------------------------------------------------ Next
\* the store's asynchronous operations against the backend
Next ==
  \/ \E c \in Slots : ServeGetRules(c)
  \/ \E c \in Slots : ServeSearchRules(c)
  \/ \E c \in Slots : ServeGetRule(c)
  \/ \E c \in Slots : ServeInsert(c)
  \/ \E c \in Slots : ServeUpdate(c)
  \/ \E c \in Slots : ServeDelete(c)
  \/ \E c \in Slots : Reject(c)
  \/ \E c \in Slots : LoadRules(c)
  \/ \E c \in Slots : LoadRulesDone(c)
  \/ \E c \in Slots, query \in SearchInputs : SearchRules(c, query)
  \/ \E c \in Slots : SearchRulesDone(c)
  \/ \E c \in Slots, id \in SeedIds : DeleteRule(c, id)
  \/ \E c \in Slots : DeleteRuleDone(c)
  \/ \E c \in Slots, id \in SeedIds : ToggleRuleStatus(c, id)
  \/ \E c \in Slots : ToggleGotRule(c)
  \/ \E c \in Slots : ToggleRuleStatusDone(c)
  \/ \E c \in Slots, ruleData \in CreateInputs : AddRule(c, ruleData)
  \/ \E c \in Slots : AddRuleGotUser(c)
  \/ \E c \in Slots : AddRuleDone(c)
  \/ \E c \in Slots, id \in SeedIds, updates \in UpdateInputs : UpdateRule(c, id, updates)
  \/ \E c \in Slots : UpdateRuleDone(c)

Spec == Init /\ [][Next]_vars

\* the accessor's queries, called directly, among writes of the store
NextAccessor ==
  \/ \E c \in Slots : ServeGetRules(c)
  \/ \E c \in Slots : ServeSearchRules(c)
  \/ \E c \in Slots : ServeGetRulesByCategory(c)
  \/ \E c \in Slots : ServeGetRulesByStatus(c)
  \/ \E c \in Slots : ServeGetRule(c)
  \/ \E c \in Slots : ServeDelete(c)
  \/ \E c \in Slots : Reject(c)
  \/ \E c \in Slots : LoadRulesDone(c)
  \/ \E c \in Slots, query \in SearchInputs : SearchRules(c, query)
  \/ \E c \in Slots : SearchRulesDone(c)
  \/ \E c \in Slots, id \in SeedIds : DeleteRule(c, id)
  \/ \E c \in Slots : DeleteRuleDone(c)
  \/ \E c \in Slots, id \in RuleIds : GetRule(c, id)
  \/ \E c \in Slots : GetRulesByCategory(c, TextBehavioral)
  \/ \E c \in Slots, status \in Statuses : GetRulesByStatus(c, status)
  \/ \E c \in Slots : AccessorDone(c)

SpecAccessor == Init /\ [][NextAccessor]_vars

\* the derived views over a cache whose rows change
NextView ==
  \/ \E c \in Slots : ServeGetRules(c)
  \/ \E c \in Slots : ServeUpdate(c)
  \/ \E c \in Slots : Reject(c)
  \/ \E c \in Slots : LoadRules(c)
  \/ \E c \in Slots : LoadRulesDone(c)
  \/ \E c \in Slots, id \in SeedIds, updates \in StatsInputs : UpdateRule(c, id, updates)
  \/ \E c \in Slots : UpdateRuleDone(c)
  \/ \E tab \in Tabs : SetActiveTab(tab)
  \/ \E query \in Queries : SetSearchQuery(query)

SpecView == Init /\ [][NextView]_vars

\* the create/edit form over the store
NextForm ==
  \/ \E c \in Slots : ServeGetRules(c)
  \/ \E c \in Slots : ServeInsert(c)
  \/ \E c \in Slots : ServeUpdate(c)
  \/ \E c \in Slots : Reject(c)
  \/ \E c \in Slots : LoadRulesDone(c)
  \/ \E c \in Slots : AddRuleGotUser(c)
  \/ \E c \in Slots : AddRuleDone(c)
  \/ \E c \in Slots : UpdateRuleDone(c)
  \/ OpenCreateModal
  \/ CloseCreateModal
  \/ \E id \in SeedIds : EditRule(id)
  \/ CloseEditModal
  \/ \E field \in {"name", "condition", "description"}, value \in FormTexts :
       HandleInputChange(field, value)
  \/ \E c \in Slots : HandleSubmit(c)

SpecForm == Init /\ [][NextForm]_vars

\* creating rules while the session changes
NextSession ==
  \/ \E c \in Slots : ServeGetRules(c)
  \/ \E c \in Slots : ServeInsert(c)
  \/ \E c \in Slots : Reject(c)
  \/ \E c \in Slots : LoadRules(c)
  \/ \E c \in Slots : LoadRulesDone(c)
  \/ \E c \in Slots, ruleData \in CreateInputs : AddRule(c, ruleData)
  \/ \E c \in Slots : AddRuleGotUser(c)
  \/ \E c \in Slots : AddRuleDone(c)
  \/ ClearError
  \/ \E u \in Users : SignIn(u)
  \/ SignOut

SpecSession == Init /\ [][NextSession]_vars

\* two overlapping calls of one mutating operation, on rule 1 and rule 2
PairOps == {"updateRule", "toggleRuleStatus", "deleteRule"}

NextPair ==
  \/ \E c \in Slots : ServeGetRules(c)
  \/ \E c \in Slots : ServeGetRule(c)
  \/ \E c \in Slots : ServeUpdate(c)
  \/ \E c \in Slots : ServeDelete(c)
  \/ \E c \in Slots : Reject(c)
  \/ \E c \in Slots : LoadRulesDone(c)
  \/ \E c, d \in Slots, op \in PairOps, updates \in UpdateInputs : StartPair(c, d, op, updates)
  \/ \E c \in Slots : DeleteRuleDone(c)
  \/ \E c \in Slots : ToggleGotRule(c)
  \/ \E c \in Slots : ToggleRuleStatusDone(c)
  \/ \E c \in Slots : UpdateRuleDone(c)

SpecPair == Init /\ [][NextPair]_vars

\* overlapping reads and writes by id, of rows that may be missing or soft-deleted
NextMissing ==
  \/ \E c \in Slots : ServeGetRules(c)
  \/ \E c \in Slots : ServeGetRule(c)
  \/ \E c \in Slots : ServeUpdate(c)
  \/ \E c \in Slots : ServeDelete(c)
  \/ \E c \in Slots : LoadRulesDone(c)
  \/ \E c \in Slots, id \in RuleIds : GetRule(c, id)
  \/ \E c \in Slots : AccessorDone(c)
  \/ \E c \in Slots, id \in RuleIds, updates \in UpdateInputs : UpdateRule(c, id, updates)
  \/ \E c \in Slots : UpdateRuleDone(c)
  \/ \E c \in Slots, id \in RuleIds : ToggleRuleStatus(c, id)
  \/ \E c \in Slots : ToggleGotRule(c)
  \/ \E c \in Slots : ToggleRuleStatusDone(c)
  \/ \E c \in Slots, id \in SeedIds : DeleteRule(c, id)
  \/ \E c \in Slots : DeleteRuleDone(c)

SpecMissing == Init /\ [][NextMissing]_vars

\* rows created and written while different principals sign in and out
NextOwner ==
  \/ \E c \in Slots : ServeGetRules(c)
  \/ \E c \in Slots : ServeGetRule(c)
  \/ \E c \in Slots : ServeInsert(c)
  \/ \E c \in Slots : ServeUpdate(c)
  \/ \E c \in Slots : ServeDelete(c)
  \/ \E c \in Slots : LoadRulesDone(c)
  \/ \E c \in Slots, ruleData \in CreateInputs : AddRule(c, ruleData)
  \/ \E c \in Slots : AddRuleGotUser(c)
  \/ \E c \in Slots : AddRuleDone(c)
  \/ \E c \in Slots, id \in SeedIds, updates \in UpdateInputs : UpdateRule(c, id, updates)
  \/ \E c \in Slots : UpdateRuleDone(c)
  \/ \E c \in Slots, id \in SeedIds : ToggleRuleStatus(c, id)
  \/ \E c \in Slots : ToggleGotRule(c)
  \/ \E c \in Slots : ToggleRuleStatusDone(c)
  \/ \E c \in Slots, id \in SeedIds : DeleteRule(c, id)
  \/ \E c \in Slots : DeleteRuleDone(c)
  \/ \E u \in Principals : SignIn(u)
  \/ SignOut

SpecOwner == Init /\ [][NextOwner]_vars

\* the change-notification listener beside a store whose rows change
NextRealtime ==
  \/ \E c \in Slots : ServeGetRules(c)
  \/ \E c \in Slots : ServeUpdate(c)
  \/ \E c \in Slots : Reject(c)
  \/ \E c \in Slots : LoadRulesDone(c)
  \/ \E c \in Slots, id \in SeedIds, updates \in UpdateInputs : UpdateRule(c, id, updates)
  \/ \E c \in Slots : UpdateRuleDone(c)
  \/ SetupGotSession
  \/ SetupSubscribed
  \/ ChannelJoined
  \/ \E i \in DOMAIN remote : RealtimeEvent(i)
  \/ Cleanup

SpecRealtime == Init /\ [][NextRealtime]_vars

\* submitting the form, valid or not
NextValidate ==
  \/ \E c \in Slots : ServeGetRules(c)
  \/ \E c \in Slots : ServeInsert(c)
  \/ \E c \in Slots : ServeUpdate(c)
  \/ \E c \in Slots : LoadRulesDone(c)
  \/ \E c \in Slots : AddRuleGotUser(c)
  \/ \E c \in Slots : AddRuleDone(c)
  \/ \E c \in Slots : UpdateRuleDone(c)
  \/ OpenCreateModal
  \/ CloseCreateModal
  \/ \E id \in SeedIds : EditRule(id)
  \/ \E field \in {"name", "condition", "description"}, value \in FormTexts :
       HandleInputChange(field, value)
  \/ \E c \in Slots : HandleSubmit(c)
  \/ HandleSubmitInvalid

SpecValidate == Init /\ [][NextValidate]_vars

\* the store of a principal whose table is still empty
InitFresh ==
  /\ remote = <<>>
  /\ now = 2
  /\ authUser \in Users
  /\ rules = <<>>
  /\ activeTab = "all"
  /\ searchQuery = <<>>
  /\ isCreateModalOpen = FALSE
  /\ isEditModalOpen = FALSE
  /\ editingRule = <<>>
  /\ isLoading = TRUE       \* the constructor has called loadRules
  /\ error = <<>>
  /\ calls = [c \in Slots |-> IF c = 1 THEN NewCall("loadRules", "getRules", 0, NoData, <<>>)
                                       ELSE IdleCall]
  /\ formData = EmptyForm
  /\ isSaving = FALSE
  /\ last = NoneSettled
  /\ ser = NoSer
  /\ deleted = {}
  /\ ops = 0
  /\ errors = {}
  /\ pair = NoPair
  /\ rtPc = "getSession"
  /\ subscriptionRef = <<>>
  /\ channels = {}
  /\ logged = 0
  /\ mounted = TRUE

\* rules created, changed and removed in a table that starts empty
NextFresh ==
  \/ \E c \in Slots : ServeGetRules(c)
  \/ \E c \in Slots : ServeGetRule(c)
  \/ \E c \in Slots : ServeInsert(c)
  \/ \E c \in Slots : ServeUpdate(c)
  \/ \E c \in Slots : ServeDelete(c)
  \/ \E c \in Slots : LoadRules(c)
  \/ \E c \in Slots : LoadRulesDone(c)
  \/ \E c \in Slots, ruleData \in CreateInputs : AddRule(c, ruleData)
  \/ \E c \in Slots : AddRuleGotUser(c)
  \/ \E c \in Slots : AddRuleDone(c)
  \/ \E c \in Slots, id \in SeedIds, updates \in UpdateInputs : UpdateRule(c, id, updates)
  \/ \E c \in Slots : UpdateRuleDone(c)
  \/ \E c \in Slots, id \in SeedIds : ToggleRuleStatus(c, id)
  \/ \E c \in Slots : ToggleGotRule(c)
  \/ \E c \in Slots : ToggleRuleStatusDone(c)
  \/ \E c \in Slots, id \in SeedIds : DeleteRule(c, id)
  \/ \E c \in Slots : DeleteRuleDone(c)

SpecFresh == InitFresh /\ [][NextFresh]_vars

\* loads and searches, overlapping, answered or rejected
NextLoading ==
  \/ \E c \in Slots : ServeGetRules(c)
  \/ \E c \in Slots : ServeSearchRules(c)
  \/ \E c \in Slots : Reject(c)
  \/ \E c \in Slots : LoadRules(c)
  \/ \E c \in Slots : LoadRulesDone(c)
  \/ \E c \in Slots, query \in SearchInputs : SearchRules(c, query)
  \/ \E c \in Slots : SearchRulesDone(c)

SpecLoading == Init /\ [][NextLoading]_vars

\* a continuation whose awaited promise has settled is run by the event loop
SpecLoadingLive ==
  /\ SpecLoading
  /\ \A c \in Slots : WF_vars(LoadRulesDone(c)) /\ WF_vars(SearchRulesDone(c))

\* ---------------------------------------------------------------- claims
StoreOps == {"loadRules", "searchRules", "addRule", "updateRule", "deleteRule",
             "toggleRuleStatus"}
QueryReqs == {"getRules", "searchRules", "getRulesByCategory", "getRulesByStatus",
              "getRule"}

Range(sq) == {sq[i] : i \in 1..Len(sq)}
Count(sq, x) == Cardinality({i \in 1..Len(sq) : sq[i] = x})

\* call c takes this step
Moves(c) == calls'[c] # calls[c]
\* the response to the request of call c carries an error
RemoteFailed(c) == calls[c].phase = "back" /\ ~calls[c].ok
RemoteSucceeded(c) == calls[c].phase = "back" /\ calls[c].ok
Completes(c) == calls[c].op # "idle" /\ calls'[c].op = "idle"

\* C1: when the remote call of a store operation fails, the operation ends,
\* rules is what it was and error holds a non-empty string; no step of a
\* store operation other than the one that handles a successful response
\* changes rules.
C1_FailureKeepsRulesAndSetsError ==
  [][\A c \in Slots :
       ((calls[c].op \in StoreOps \/ calls'[c].op \in StoreOps) /\ Moves(c)) =>
         /\ RemoteFailed(c) =>
              /\ Completes(c)
              /\ rules' = rules
              /\ error' # <<>>
              /\ error'[1] # ""
         /\ ~RemoteSucceeded(c) => rules' = rules]_vars

C1_Witness ==
  /\ last.promise # "none"
  /\ ~last.ok
  /\ error # <<>>
  /\ rules # <<>>

\* C2: a store operation that completes successfully leaves error null.
C2_SuccessClearsError ==
  [][\A c \in Slots :
       (calls[c].op \in StoreOps /\ RemoteSucceeded(c) /\ Completes(c)) =>
         error' = <<>>]_vars

\* C3: no result of getRules, searchRules, getRulesByCategory,
\* getRulesByStatus or getRule contains a row whose is_deleted flag is true.
C3_NoDeletedRowInResults ==
  \A c \in Slots :
    (calls[c].phase = "back" /\ calls[c].req \in QueryReqs) =>
      \A i \in 1..Len(calls[c].res) : calls[c].res[i].is_deleted = FALSE

C3_Witness ==
  \E c \in Slots :
    /\ calls[c].phase = "back"
    /\ calls[c].req = "getRulesByStatus"
    /\ calls[c].ok
    /\ \E i \in DOMAIN remote :
         /\ remote[i].is_deleted
         /\ remote[i].status = calls[c].data.status
         /\ remote[i].user_id = calls[c].as

\* C4: once deleteRule(id) has completed successfully, no rule with that id
\* is in rules or in filteredRules.
C4_DeletedRuleStaysOut ==
  \A id \in deleted :
    /\ \A i \in 1..Len(rules) : rules[i].id # id
    /\ \A i \in 1..Len(filteredRules) : filteredRules[i].id # id

\* C5: with no authenticated principal addRule ends with the error
\* 'User not authenticated', rejects, sends no insert request and leaves
\* rules and the remote table unchanged.
C5_NoPrincipalNoInsert ==
  [][\A c \in Slots :
       (Sent(c, "getUser") /\ authUser = NoUser /\ Moves(c)) =>
         /\ calls'[c].op = "idle"
         /\ \A d \in Slots : calls'[d].req = "insert" => calls[d].req = "insert"
         /\ error' = <<"User not authenticated">>
         /\ last' = [ok |-> FALSE, promise |-> "rejected"]
         /\ rules' = rules
         /\ remote' = remote]_vars

C5_Witness ==
  /\ authUser = NoUser
  /\ error = <<"User not authenticated">>
  /\ last = [ok |-> FALSE, promise |-> "rejected"]

\* C6 as stated: two serialized toggles of a rule leave its status equal to
\* the original status, whatever that status was.
C6_TwoTogglesRestoreAnyStatus ==
  ser.n = 2 => remote[ser.id].status = ser.orig

\* C6 as amended: two serialized toggles of a rule whose original status is
\* active or inactive leave its status equal to the original status.
C6_TwoTogglesRestoreActiveOrInactive ==
  (ser.n = 2 /\ ser.orig \in {"active", "inactive"}) =>
    remote[ser.id].status = ser.orig

C6_Witness == ser.n = 2 /\ ser.orig = "inactive" /\ ~remote[ser.id].is_deleted

\* C7: on the attention tab with an empty query, filteredRules holds exactly
\* the cached rules with status warning, effectiveness below 70 or more than
\* 100 false positives, and needsAttentionCount is their number.
C7_AttentionViewIsExact ==
  (activeTab = "attention" /\ searchQuery = <<>>) =>
    /\ \A r \in Range(rules) \cup Range(filteredRules) :
         Count(filteredRules, r) =
           IF r.status = "warning" \/ r.effectiveness < 70 \/ r.false_positives > 100
           THEN Count(rules, r) ELSE 0
    /\ needsAttentionCount = Len(filteredRules)
    /\ \A r \in Range(rules) :
         /\ (r.status = "active" /\ r.effectiveness = 70 /\ r.false_positives = 100)
              => r \notin Range(filteredRules)
         /\ (r.status = "active" /\ r.effectiveness = 69 /\ r.false_positives = 100)
              => r \in Range(filteredRules)

C7_Witness ==
  /\ activeTab = "attention"
  /\ searchQuery = <<>>
  /\ \E r \in Range(rules) :
       r.status = "active" /\ r.effectiveness = 69 /\ r.false_positives = 100

\* C8: with an empty query filteredRules is the tab-filtered list and nothing
\* less; on the 'all' tab it is rules, in the same order.
C8_EmptyQueryFiltersNothing ==
  searchQuery = <<>> =>
    /\ filteredRules =
         SelectSeq(rules, LAMBDA r :
           \/ activeTab = "all"
           \/ activeTab = "active" /\ r.status = "active"
           \/ activeTab = "attention" /\ (\/ r.status = "warning"
                                          \/ r.effectiveness < 70
                                          \/ r.false_positives > 100))
    /\ activeTab = "all" => filteredRules = rules

C8_Witness ==
  /\ searchQuery = <<>>
  /\ activeTab = "all"
  /\ Len(rules) = 2
  /\ rules[1].created_at > rules[2].created_at
  /\ \E r \in Range(rules) :
       r.status = "active" /\ r.effectiveness >= 70 /\ r.false_positives <= 100

\* C9: a successful addRule puts the created rule at index 0 of rules, with
\* catches, false_positives and effectiveness 0 and is_deleted false, and the
\* rules cached before follow it in their order.
C9_CreatedRuleIsFirst ==
  [][\A c \in Slots :
       (Back(c, "addRule", "insert") /\ calls[c].ok /\ Moves(c)) =>
         /\ Len(rules') = Len(rules) + 1
         /\ SubSeq(rules', 2, Len(rules')) = rules
         /\ rules'[1] = calls[c].res[1]
         /\ rules'[1].name = calls[c].data.name
         /\ rules'[1].catches = 0
         /\ rules'[1].false_positives = 0
         /\ rules'[1].effectiveness = 0
         /\ rules'[1].is_deleted = FALSE]_vars

C9_Witness ==
  /\ Len(rules) = 2
  /\ rules[1].id = Len(remote)
  /\ rules[1].created_at > rules[2].created_at
  /\ rules[1].catches = 0
  /\ last = [ok |-> TRUE, promise |-> "fulfilled"]

\* C10: a failed addRule or updateRule sets error and rejects; the submit
\* handler closes the modal only after a successful save, leaves it as it is
\* after a failed one, and ends with isSaving false in both cases.
C10_ModalClosesOnlyOnSuccess ==
  [][\A c \in Slots :
       Moves(c) =>
         /\ (calls[c].op \in {"addRule", "updateRule"}
              /\ (RemoteFailed(c) \/ (Sent(c, "getUser") /\ authUser = NoUser))) =>
              /\ calls'[c].op = "idle"
              /\ error' # <<>>
              /\ last' = [ok |-> FALSE, promise |-> "rejected"]
              /\ isCreateModalOpen' = isCreateModalOpen
              /\ calls[c].form => isSaving' = FALSE
         /\ (calls[c].form /\ RemoteSucceeded(c)) =>
              /\ isCreateModalOpen' = FALSE
              /\ isSaving' = FALSE
              /\ last' = [ok |-> TRUE, promise |-> "fulfilled"]
         /\ (isCreateModalOpen /\ ~isCreateModalOpen') =>
              (calls[c].form /\ RemoteSucceeded(c))]_vars

C10_Witness ==
  /\ isCreateModalOpen
  /\ ~isSaving
  /\ error # <<>>
  /\ last = [ok |-> FALSE, promise |-> "rejected"]

\* C11: rules changes only in the step of a store operation that handles a
\* successful response, and every rule that step puts into rules is a row of
\* that response (rules starts empty, so every cached rule was returned by a
\* successful request).
C11_NoOptimisticUpdate ==
  [][rules' # rules =>
       \E c \in Slots :
         /\ calls[c].op \in StoreOps
         /\ RemoteSucceeded(c)
         /\ Completes(c)
         /\ Range(rules') \subseteq Range(rules) \cup Range(calls[c].res)]_vars

C11_Witness ==
  /\ last = [ok |-> TRUE, promise |-> "fulfilled"]
  /\ \E r \in Range(rules) : r.updated_at > r.created_at

\* one call of mutating operation op on rule id, run alone from state st
\* (remote rows, cached rules, clock) by principal uid, with the given
\* outcome; a failed call changes neither the table nor the cache
SerialCall(st, uid, op, id, updates, ok) ==
  LET m == IF op = "deleteRule" THEN SvcDeleteMatch(st.remote, uid, id)
           ELSE SvcUpdateMatch(st.remote, uid, id)
      upd == IF op = "deleteRule" THEN [is_deleted |-> TRUE]
             ELSE IF op = "updateRule" THEN updates
             ELSE [status |-> IF m = {} THEN "active"
                              ELSE ToggledStatus(st.remote[CHOOSE i \in m : TRUE].status)]
      written == [i \in DOMAIN st.remote |->
                    IF i \in m THEN ApplyUpdate(st.remote[i], upd, st.now)
                    ELSE st.remote[i]]
  IN  IF ~ok THEN st
      ELSE IF op = "deleteRule"
      THEN [remote |-> written, rules |-> RemoveById(st.rules, id),
            now |-> IF m = {} THEN st.now ELSE st.now + 1]
      ELSE IF m = {} THEN st
      ELSE [remote |-> written,
            rules |-> ReplaceById(st.rules, id, written[CHOOSE i \in m : TRUE]),
            now |-> st.now + 1]

\* the observed pair run one call after the other, first the call on rule
\* first, from the state the pair started in
SerialPair(first, updates) ==
  LET second == 3 - first
      st0 == [remote |-> pair.remote0, rules |-> pair.rules0, now |-> pair.now0]
      st1 == SerialCall(st0, authUser, pair.op, first, updates, pair.out[first] = "ok")
  IN  SerialCall(st1, authUser, pair.op, second, updates, pair.out[second] = "ok")

PairSettled ==
  /\ pair.op # "none"
  /\ pair.alone
  /\ pair.out[1] # "pending"
  /\ pair.out[2] # "pending"

\* C12: two overlapping calls of updateRule, toggleRuleStatus or deleteRule on
\* two different ids, with nothing else in flight, end with the rules and
\* the remote rows of the two calls run one after the other.
C12_OverlapOnDifferentIdsIsSerial ==
  PairSettled =>
    \E first \in {1, 2}, updates \in UpdateInputs :
      /\ remote = SerialPair(first, updates).remote
      /\ rules = SerialPair(first, updates).rules

C12_Witness ==
  /\ PairSettled
  /\ pair.out = <<"ok", "ok">>
  /\ pair.op = "toggleRuleStatus"
  /\ Len(rules) = 2
  /\ Len(remote) = 2
  /\ remote[2].updated_at >= pair.now0
  /\ remote[1].updated_at > remote[2].updated_at

\* no step removes a row of the remote table or changes a row's id
RowsStay ==
  /\ Len(remote') >= Len(remote)
  /\ \A i \in DOMAIN remote : remote'[i].id = remote[i].id

\* the delete request of call c changes nothing but the columns in free, and
\* is_deleted only of the row with the call's id, to true
DeleteWrites(c, free) ==
  \A i \in DOMAIN remote :
    /\ \A f \in DOMAIN remote[i] \ free : remote'[i][f] = remote[i][f]
    /\ remote'[i] # remote[i] => (remote[i].id = calls[c].id /\ remote'[i].is_deleted)

\* C13 as stated: the set of remote row ids never shrinks, and deleteRule(id)
\* sets is_deleted to true on that row and changes no other attribute.
C13_DeleteChangesOnlyTheFlag ==
  [][/\ RowsStay
     /\ \A c \in Slots : (Sent(c, "delete") /\ Moves(c)) =>
          DeleteWrites(c, {"is_deleted"})]_vars

\* C13 as amended: the set of remote row ids never shrinks, and
\* deleteRule(id) sets is_deleted to true on that row and changes no other
\* attribute except updated_at.
C13_DeleteChangesFlagAndTimestamp ==
  [][/\ RowsStay
     /\ \A c \in Slots : (Sent(c, "delete") /\ Moves(c)) =>
          DeleteWrites(c, {"is_deleted", "updated_at"})]_vars

C13_Witness ==
  \E i \in DOMAIN remote :
    /\ remote[i].is_deleted
    /\ remote[i].updated_at > remote[i].created_at
    /\ remote[i].id \in deleted

\* no row has this id, or the row that has it is soft-deleted
Missing(id) == \A i \in DOMAIN remote : remote[i].id = id => remote[i].is_deleted

SoftDeleted(id) == \E i \in DOMAIN remote : remote[i].id = id /\ remote[i].is_deleted

\* C14: for an id that no row has or whose row is soft-deleted, getRule
\* resolves with null; toggleRuleStatus ends with the error 'Rule not found'
\* and updateRule with an error, and neither changes a row.
C14_NotFoundIsNullForGetRuleOnly ==
  [][\A c \in Slots :
       Moves(c) =>
         /\ (Sent(c, "getRule") /\ Missing(calls[c].id)) =>
              /\ ~calls'[c].ok
              /\ calls'[c].res = <<>>
              /\ calls'[c].err \in {NoRowsError, BackendError}
              /\ remote' = remote
         /\ (Back(c, "getRule", "getRule") /\ calls[c].err = NoRowsError) =>
              /\ Completes(c)
              /\ calls[c].res = <<>>
              /\ last' = [ok |-> TRUE, promise |-> "fulfilled"]
         /\ (Back(c, "toggleRuleStatus", "getRule") /\ calls[c].err = NoRowsError) =>
              /\ Completes(c)
              /\ error' = <<"Rule not found">>
              /\ remote' = remote
              /\ rules' = rules
         /\ (Sent(c, "update") /\ Missing(calls[c].id)) =>
              /\ ~calls'[c].ok
              /\ remote' = remote
         /\ (Back(c, "updateRule", "update") /\ ~calls[c].ok) =>
              /\ Completes(c)
              /\ error' # <<>>
              /\ last' = [ok |-> FALSE, promise |-> "rejected"]
              /\ remote' = remote
              /\ rules' = rules]_vars

C14_Witness ==
  /\ error = <<"Rule not found">>
  /\ \E id \in RuleIds : Missing(id) /\ SoftDeleted(id)
  /\ \A c \in Slots : calls[c].op = "idle"

\* C15: an update request for the id of a soft-deleted row changes no row.
C15_UpdateOfDeletedRowWritesNothing ==
  [][\A c \in Slots :
       (Sent(c, "update") /\ SoftDeleted(calls[c].id) /\ Moves(c)) =>
         remote' = remote]_vars

C15_Witness ==
  \E c \in Slots :
    /\ Back(c, "updateRule", "update")
    /\ calls[c].err = NoRowsError
    /\ calls[c].as \in Users
    /\ SoftDeleted(calls[c].id)

\* C16: a row created through createRule has the user_id of the principal
\* of the session createRule reads and inserts under, and no step changes
\* the user_id of a row.
C16_OwnerIsStampedOnceFromSession ==
  [][/\ \A i \in DOMAIN remote : remote'[i].user_id = remote[i].user_id
     /\ \A c \in Slots :
          Moves(c) =>
            /\ (Sent(c, "getUser") /\ calls'[c].req = "insert") =>
                 /\ authUser \in Principals
                 /\ calls'[c].as = authUser
                 /\ calls'[c].data.user_id = authUser
            /\ (Sent(c, "insert") /\ calls'[c].ok) =>
                 /\ Len(remote') = Len(remote) + 1
                 /\ remote'[Len(remote')].user_id = calls[c].as
                 /\ calls[c].as \in Principals]_vars

C16_Witness ==
  /\ authUser = "u2"
  /\ \E i \in DOMAIN remote : remote[i].user_id = "u2"
  /\ \E i \in DOMAIN remote : remote[i].user_id = "u1"

\* C17: the handler of a change notification leaves every field of the store
\* as it was, and issues no request.
C17_EventLeavesStoreAlone ==
  [][logged' # logged => (UNCHANGED storeVars /\ calls' = calls)]_vars

C17_Witness ==
  /\ logged > 0
  /\ \E i \in DOMAIN remote, j \in DOMAIN rules :
       /\ rules[j].id = remote[i].id
       /\ rules[j] # remote[i]
  /\ \A c \in Slots : calls[c].op = "idle"

\* the text has a character that is not white space
NonBlank(text) == \E i \in 1..Len(text) : text[i] # " "

AllFilled(fd) ==
  /\ NonBlank(fd.name)
  /\ NonBlank(fd.condition)
  /\ NonBlank(fd.description)
  /\ fd.category # <<>>

\* C18: a submit of a form with a blank required field issues no call, and
\* every addRule or updateRule call the form makes carries four non-blank
\* required fields.
C18_BlankFormIsNotSubmitted ==
  [][/\ ~AllFilled(formData) =>
          \A c \in Slots : calls[c].op = "idle" => calls'[c].op = "idle"
     /\ \A c \in Slots :
          (calls'[c].op \in {"addRule", "updateRule"}) => AllFilled(calls'[c].data)]_vars

C18_Witness ==
  /\ isCreateModalOpen
  /\ formData.name = <<" ">>
  /\ NonBlank(formData.condition)
  /\ "name" \in errors
  /\ "condition" \notin errors
  /\ \A c \in Slots : calls[c].op = "idle"

\* C19: whenever no request is in flight, every cached rule equals the
\* remote row with its id, and that row is not soft-deleted.
C19_QuiescentCacheMirrorsRemote ==
  (\A c \in Slots : calls[c].op = "idle") =>
    \A j \in 1..Len(rules) :
      \E i \in DOMAIN remote :
        /\ remote[i].id = rules[j].id
        /\ remote[i] = rules[j]
        /\ ~remote[i].is_deleted

\* toggles c and d of one rule have both read the same version of the row,
\* both writes have been served, and the row is as one of them wrote it
RacedToggles(c, d) ==
  /\ c # d
  /\ Back(c, "toggleRuleStatus", "update") /\ calls[c].ok
  /\ Back(d, "toggleRuleStatus", "update") /\ calls[d].ok
  /\ calls[c].id = calls[d].id
  /\ calls[c].cur = calls[d].cur
  /\ \E i \in DOMAIN remote : remote[i] \in {calls[c].res[1], calls[d].res[1]}

\* C20: when two overlapping toggles of one rule have both read the status
\* before either wrote, the status after both writes is the read status
\* flipped once, which is not what two toggles in a row yield.
C20_RacedTogglesFlipOnce ==
  \A c, d \in Slots :
    RacedToggles(c, d) =>
      \A i \in DOMAIN remote :
        remote[i].id = calls[c].id =>
          /\ remote[i].status = ToggledStatus(calls[c].cur[1].status)
          /\ remote[i].status # ToggledStatus(ToggledStatus(calls[c].cur[1].status))

C20_Witness ==
  \E c, d \in Slots :
    /\ RacedToggles(c, d)
    /\ calls[c].cur[1].status = "active"
    /\ \E i \in DOMAIN remote : remote[i].id = calls[c].id /\ remote[i].status = "inactive"

\* the component is unmounted and setupRealtime has run to its end
Disposed == ~mounted /\ rtPc = "done"

NoChannelLeft == Disposed => channels = {}

AtMostOneChannel == Cardinality(channels) <= 1

\* C21: once the component is disposed and setupRealtime has finished, no
\* channel it created is still registered, also when the cleanup ran while
\* the session lookup was pending; and it never has more than one channel.
C21_DisposalLeavesNoChannel == NoChannelLeft /\ AtMostOneChannel

\* call c is a toggle that has issued its write
ToggleWrites(c) == calls[c].op = "toggleRuleStatus" /\ calls[c].req = "update"

\* C22: the status a toggle writes is 'active' or 'inactive', never
\* 'warning': 'inactive' exactly when the status it read was 'active', and
\* 'active' for every other status read; the row it writes gets that status.
C22_ToggleWritesActiveOrInactive ==
  \A c \in Slots :
    ToggleWrites(c) =>
      /\ calls[c].data.status \in {"active", "inactive"}
      /\ calls[c].data.status = "inactive" <=> calls[c].cur[1].status = "active"
      /\ calls[c].data.status = "active" <=> calls[c].cur[1].status \in {"inactive", "warning"}
      /\ (calls[c].phase = "back" /\ calls[c].ok) => calls[c].res[1].status = calls[c].data.status

C22_Witness ==
  \E c \in Slots :
    /\ ToggleWrites(c)
    /\ calls[c].phase = "back" /\ calls[c].ok
    /\ calls[c].cur[1].status = "warning"
    /\ calls[c].res[1].status = "active"

\* C23: the store's rules hold at most one entry per rule id, whatever the
\* interleaving of addRule with the loads and searches in flight.
C23_OneEntryPerRuleId ==
  \A j, k \in 1..Len(rules) : rules[j].id = rules[k].id => j = k

\* C24: the store's rules are ordered newest first by creation time, also
\* after addRule calls whose responses arrive in another order than the rows
\* were created.
C24_RulesNewestFirst ==
  \A j, k \in 1..Len(rules) :
    rules[j].created_at > rules[k].created_at => j < k

\* C25: isEditModalOpen is true only while editingRule is set and the
\* shared modal is open.
C25_EditFlagNeedsTargetAndOpenModal ==
  isEditModalOpen => (editingRule # <<>> /\ isCreateModalOpen)

LoadOps == {"loadRules", "searchRules"}

\* call c is a load or a search that has not run to its end
Loading(c) == calls[c].op \in LoadOps

\* C26: isLoading is true whenever a loadRules or searchRules request is in
\* flight, also when two of them overlap and one completes first.
C26_LoadingWhileAnyInFlight ==
  (\E c \in Slots : Loading(c)) => isLoading

\* no load or search is in flight and the flag is still set
StuckLoading == isLoading /\ \A c \in Slots : ~Loading(c)

\* C27: a load or search whose request has completed, with success or with
\* failure, is followed by a state with isLoading = FALSE, and isLoading is
\* never TRUE while no load or search is in flight.
C27_CompletedLoadClearsLoading ==
  /\ [](~StuckLoading)
  /\ \A c \in Slots : (Loading(c) /\ calls[c].phase = "back") ~> ~isLoading

C27_Witness ==
  /\ ~isLoading
  /\ \A c \in Slots : ~Loading(c)
  /\ last = [ok |-> FALSE, promise |-> "fulfilled"]
  /\ error # <<>>

====
